---------------------------- MODULE Spec2Model ----------------------------
(***************************************************************************)
(* A model of summary.rs, the pkg_summary(5) parser of pkgsrc-rs.          *)
(*                                                                         *)
(* Text is modelled byte by byte: a string or a byte buffer is a sequence  *)
(* of numbers in 0..255 (the UTF-8 encoding), so the empty string is <<>>. *)
(* An Option<T> is a sequence of length at most one: None is <<>> and      *)
(* Some(v) is <<v>>.  An i64 is kept as a sign and the decimal digits of   *)
(* its magnitude without leading zeros, so that the full 64-bit range is   *)
(* represented exactly.                                                    *)
(***************************************************************************)
EXTENDS Integers, Sequences, FiniteSets, TLC

VARIABLES
    \* ---- SummaryStream (summary.rs:55-58) and its caller
    pending,   \* bytes the caller holds and has not supplied yet
    received,  \* the items the caller has read from its source, in order
    buf,       \* SummaryStream.buf
    entries,   \* SummaryStream.entries
    status,    \* "ok", or "panicked" once a write call has panicked: the
               \* panic unwinds out of write, and nothing is called on the
               \* stream afterwards
    ret,       \* result of the last write call: <<n>> for Ok(n), <<>> if none
    fed,       \* every byte supplied to write so far, in order
    diag,      \* the diagnostics write has printed so far
    inserted,  \* every Summary write has pushed to entries so far, in order
    \* ---- a single Summary driven through its own methods
    sum,       \* the Summary
    hist,      \* the <<key, value>> pairs given to parse_entry so far
    lastCall,  \* the last call on sum: its name, arguments, the Summary
               \* before it and its outcome
    calls      \* number of parse_entry and set_automatic calls the caller
               \* has made since Init

vars == <<pending, received, buf, entries, status, ret, fed, diag, inserted, sum, hist, lastCall, calls>>

streamVars == <<pending, received, buf, entries, status, ret, fed, diag, inserted>>
summaryVars == <<sum, hist, lastCall, calls>>

----------------------------------------------------------------------------
(* Bytes with a meaning to the parser.                                     *)

LF == 10
CR == 13
EQ == 61
DASH == 45
PLUS == 43
DIGIT0 == 48
DIGIT9 == 57

----------------------------------------------------------------------------
(* The recognized keys (summary.rs:319-348).                               *)

\* "BUILD_DATE"
K_BUILD_DATE == <<66, 85, 73, 76, 68, 95, 68, 65, 84, 69>>
\* "CATEGORIES"
K_CATEGORIES == <<67, 65, 84, 69, 71, 79, 82, 73, 69, 83>>
\* "COMMENT"
K_COMMENT == <<67, 79, 77, 77, 69, 78, 84>>
\* "CONFLICTS"
K_CONFLICTS == <<67, 79, 78, 70, 76, 73, 67, 84, 83>>
\* "DEPENDS"
K_DEPENDS == <<68, 69, 80, 69, 78, 68, 83>>
\* "DESCRIPTION"
K_DESCRIPTION == <<68, 69, 83, 67, 82, 73, 80, 84, 73, 79, 78>>
\* "FILE_CKSUM"
K_FILE_CKSUM == <<70, 73, 76, 69, 95, 67, 75, 83, 85, 77>>
\* "FILE_NAME"
K_FILE_NAME == <<70, 73, 76, 69, 95, 78, 65, 77, 69>>
\* "FILE_SIZE"
K_FILE_SIZE == <<70, 73, 76, 69, 95, 83, 73, 90, 69>>
\* "HOMEPAGE"
K_HOMEPAGE == <<72, 79, 77, 69, 80, 65, 71, 69>>
\* "LICENSE"
K_LICENSE == <<76, 73, 67, 69, 78, 83, 69>>
\* "MACHINE_ARCH"
K_MACHINE_ARCH == <<77, 65, 67, 72, 73, 78, 69, 95, 65, 82, 67, 72>>
\* "OPSYS"
K_OPSYS == <<79, 80, 83, 89, 83>>
\* "OS_VERSION"
K_OS_VERSION == <<79, 83, 95, 86, 69, 82, 83, 73, 79, 78>>
\* "PKG_OPTIONS"
K_PKG_OPTIONS == <<80, 75, 71, 95, 79, 80, 84, 73, 79, 78, 83>>
\* "PKGNAME"
K_PKGNAME == <<80, 75, 71, 78, 65, 77, 69>>
\* "PKGPATH"
K_PKGPATH == <<80, 75, 71, 80, 65, 84, 72>>
\* "PKGTOOLS_VERSION"
K_PKGTOOLS_VERSION == <<80, 75, 71, 84, 79, 79, 76, 83, 95, 86, 69, 82, 83, 73, 79, 78>>
\* "PREV_PKGPATH"
K_PREV_PKGPATH == <<80, 82, 69, 86, 95, 80, 75, 71, 80, 65, 84, 72>>
\* "PROVIDES"
K_PROVIDES == <<80, 82, 79, 86, 73, 68, 69, 83>>
\* "REQUIRES"
K_REQUIRES == <<82, 69, 81, 85, 73, 82, 69, 83>>
\* "SIZE_PKG"
K_SIZE_PKG == <<83, 73, 90, 69, 95, 80, 75, 71>>
\* "SUPERSEDES"
K_SUPERSEDES == <<83, 85, 80, 69, 82, 83, 69, 68, 69, 83>>

\* keys whose field is a Vec<String> that parse_entry pushes to
RepeatedKeys ==
    {K_CATEGORIES, K_CONFLICTS, K_DEPENDS, K_DESCRIPTION, K_PROVIDES,
     K_REQUIRES, K_SUPERSEDES}

\* keys parsed as i64
IntegerKeys == {K_FILE_SIZE, K_SIZE_PKG}

KnownKeys ==
    {K_BUILD_DATE, K_CATEGORIES, K_COMMENT, K_CONFLICTS, K_DEPENDS,
     K_DESCRIPTION, K_FILE_CKSUM, K_FILE_NAME, K_FILE_SIZE, K_HOMEPAGE,
     K_LICENSE, K_MACHINE_ARCH, K_OPSYS, K_OS_VERSION, K_PKG_OPTIONS,
     K_PKGNAME, K_PKGPATH, K_PKGTOOLS_VERSION, K_PREV_PKGPATH, K_PROVIDES,
     K_REQUIRES, K_SIZE_PKG, K_SUPERSEDES}

----------------------------------------------------------------------------
(* str::parse::<i64>() (summary.rs:312).                                   *)

None == <<>>
Some(v) == <<v>>

\* decimal digits of i64::MAX = 9223372036854775807
I64MaxDigits == <<9, 2, 2, 3, 3, 7, 2, 0, 3, 6, 8, 5, 4, 7, 7, 5, 8, 0, 7>>
\* decimal digits of the magnitude of i64::MIN = -9223372036854775808
I64MinDigits == <<9, 2, 2, 3, 3, 7, 2, 0, 3, 6, 8, 5, 4, 7, 7, 5, 8, 0, 8>>

IsDigit(b) == b >= DIGIT0 /\ b <= DIGIT9

\* index of the first byte of s that is not '0', Len(s)+1 if there is none
RECURSIVE FirstNonZero(_, _)
FirstNonZero(s, i) ==
    IF i > Len(s) THEN i
    ELSE IF s[i] # DIGIT0 THEN i
    ELSE FirstNonZero(s, i + 1)

\* the magnitude written by the digit bytes ds, without leading zeros
Magnitude(ds) ==
    LET k == FirstNonZero(ds, 1)
    IN IF k > Len(ds) THEN <<0>>
       ELSE [i \in 1..(Len(ds) - k + 1) |-> ds[k + i - 1] - DIGIT0]

\* a <= b for magnitudes without leading zeros
MagLeq(a, b) ==
    \/ Len(a) < Len(b)
    \/ /\ Len(a) = Len(b)
       /\ \/ a = b
          \/ \E i \in 1..Len(a) :
                /\ a[i] < b[i]
                /\ \A j \in 1..(i - 1) : a[j] = b[j]

\* value.parse::<i64>(): None for Err(_), Some(v) for Ok(v)
ParseI64(value) ==
    IF Len(value) = 0 THEN None
    ELSE IF Len(value) = 1 /\ value[1] \in {PLUS, DASH} THEN None
    ELSE
      LET signed == value[1] \in {PLUS, DASH}
          neg    == value[1] = DASH
          ds     == IF signed THEN SubSeq(value, 2, Len(value)) ELSE value
          mag    == Magnitude(ds)
      IN IF \E i \in 1..Len(ds) : ~IsDigit(ds[i]) THEN None
         ELSE IF neg /\ ~MagLeq(mag, I64MinDigits) THEN None
         ELSE IF ~neg /\ ~MagLeq(mag, I64MaxDigits) THEN None
         ELSE Some([neg |-> neg /\ mag # <<0>>, mag |-> mag])

----------------------------------------------------------------------------
(* Summary (summary.rs:68-95).                                             *)

\* Summary::new(): every field at its Default
SummaryNew ==
    [automatic        |-> None,
     build_date       |-> <<>>,
     categories       |-> <<>>,
     comment          |-> <<>>,
     conflicts        |-> <<>>,
     depends          |-> <<>>,
     description      |-> <<>>,
     file_cksum       |-> None,
     file_name        |-> None,
     file_size        |-> None,
     homepage         |-> None,
     license          |-> None,
     machine_arch     |-> <<>>,
     opsys            |-> <<>>,
     os_version       |-> <<>>,
     pkg_options      |-> None,
     pkgbase          |-> <<>>,
     pkgname          |-> <<>>,
     pkgpath          |-> <<>>,
     pkgtools_version |-> <<>>,
     pkgversion       |-> <<>>,
     prev_pkgpath     |-> None,
     provides         |-> <<>>,
     requires         |-> <<>>,
     size_pkg         |-> None,
     supersedes       |-> <<>>]

\* positions of c in s
Positions(s, c) == {i \in 1..Len(s) : s[i] = c}

SetMax(S) == CHOOSE m \in S : \A x \in S : x <= m
SetMin(S) == CHOOSE m \in S : \A x \in S : m <= x

\* as RSplitN2 below, but splitting at the first occurrence: splitn for
\* rsplitn
SplitAtFirst(s, c) ==
    LET ps == Positions(s, c)
    IN IF ps = {} THEN <<s>>
       ELSE LET p == SetMin(ps)
            IN <<SubSeq(s, p + 1, Len(s)), SubSeq(s, 1, p - 1)>>

\* splitstring.rsplitn(2, '-').collect(): the part after the last '-' first,
\* then the part before it; the whole string alone when it has no '-'
RSplitN2(s, c) ==
    LET ps == Positions(s, c)
    IN IF ps = {} THEN <<s>>
       ELSE LET p == SetMax(ps)
            IN <<SubSeq(s, p + 1, Len(s)), SubSeq(s, 1, p - 1)>>

\* as ParsePkgname below, but leaving the base name and the version alone
ParsePkgnameOnly(self, valstring) ==
    LET v == RSplitN2(valstring, DASH)
        named == [self EXCEPT !.pkgname = valstring]
    IN IF Len(v) < 2
       THEN [sum |-> named, res |-> "panic"]
       ELSE [sum |-> named, res |-> "Ok"]

\* the "PKGNAME" arm: pkgname is assigned before v[1] is indexed, and
\* indexing v[1] panics when the value has no '-'
ParsePkgname(self, valstring) ==
    LET v == RSplitN2(valstring, DASH)
        named == [self EXCEPT !.pkgname = valstring]
    IN IF Len(v) < 2
       THEN [sum |-> named, res |-> "panic"]
       ELSE [sum |-> [named EXCEPT !.pkgbase = v[2], !.pkgversion = v[1]],
             res |-> "Ok"]

\* the two integer arms: vali64.unwrap() panics on Err, before the store
ParseInteger(self, field, vali64) ==
    IF vali64 = None
    THEN [sum |-> self, res |-> "panic"]
    ELSE [sum |-> [self EXCEPT ![field] = Some(vali64[1])], res |-> "Ok"]

\* as SetScalar below, but keeping a value the field already has
SetScalarKeepFirst(self, field, valstring) ==
    [sum |-> [self EXCEPT ![field] = IF @ = <<>> THEN valstring ELSE @],
     res |-> "Ok"]

SetScalar(self, field, valstring) ==
    [sum |-> [self EXCEPT ![field] = valstring], res |-> "Ok"]

SetOptional(self, field, valstring) ==
    [sum |-> [self EXCEPT ![field] = Some(valstring)], res |-> "Ok"]

\* as PushRepeated below, but assigning instead of pushing
PushOverwrite(self, field, valstring) ==
    [sum |-> [self EXCEPT ![field] = <<valstring>>], res |-> "Ok"]

PushRepeated(self, field, valstring) ==
    [sum |-> [self EXCEPT ![field] = Append(@, valstring)], res |-> "Ok"]

\* the i64 0
I64Zero == [neg |-> FALSE, mag |-> <<0>>]

\* Summary::file_size(): self.file_size.unwrap_or(0)
file_size(self) ==
    IF self.file_size = None THEN I64Zero ELSE self.file_size[1]

\* Summary::size_pkg(): &self.size_pkg
size_pkg(self) == self.size_pkg

\* the i64 1
I64One == [neg |-> FALSE, mag |-> <<1>>]

\* Summary::automatic(): self.automatic.unwrap_or(0)
automatic(self) ==
    IF self.automatic = None THEN I64Zero ELSE self.automatic[1]

\* Summary::set_automatic(): self.automatic = Some(1)
set_automatic(self) == [self EXCEPT !.automatic = Some(I64One)]

\* Summary::parse_entry: the Summary afterwards and "Ok", "Err" or "panic"
parse_entry(self, key, value) ==
    LET valstring == value
        vali64    == ParseI64(value)
    IN CASE key = K_BUILD_DATE       -> SetScalar(self, "build_date", valstring)
         [] key = K_CATEGORIES       -> PushRepeated(self, "categories", valstring)
         [] key = K_COMMENT          -> SetScalar(self, "comment", valstring)
         [] key = K_CONFLICTS        -> PushRepeated(self, "conflicts", valstring)
         [] key = K_DEPENDS          -> PushRepeated(self, "depends", valstring)
         [] key = K_DESCRIPTION      -> PushRepeated(self, "description", valstring)
         [] key = K_FILE_CKSUM       -> SetOptional(self, "file_cksum", valstring)
         [] key = K_FILE_NAME        -> SetOptional(self, "file_name", valstring)
         [] key = K_FILE_SIZE        -> ParseInteger(self, "file_size", vali64)
         [] key = K_HOMEPAGE         -> SetOptional(self, "homepage", valstring)
         [] key = K_LICENSE          -> SetOptional(self, "license", valstring)
         [] key = K_MACHINE_ARCH     -> SetScalar(self, "machine_arch", valstring)
         [] key = K_OPSYS            -> SetScalar(self, "opsys", valstring)
         [] key = K_OS_VERSION       -> SetScalar(self, "os_version", valstring)
         [] key = K_PKG_OPTIONS      -> SetOptional(self, "pkg_options", valstring)
         [] key = K_PKGNAME          -> ParsePkgname(self, valstring)
         [] key = K_PKGPATH          -> SetScalar(self, "pkgpath", valstring)
         [] key = K_PKGTOOLS_VERSION -> SetScalar(self, "pkgtools_version", valstring)
         [] key = K_PREV_PKGPATH     -> SetOptional(self, "prev_pkgpath", valstring)
         [] key = K_PROVIDES         -> PushRepeated(self, "provides", valstring)
         [] key = K_REQUIRES         -> PushRepeated(self, "requires", valstring)
         [] key = K_SIZE_PKG         -> ParseInteger(self, "size_pkg", vali64)
         [] key = K_SUPERSEDES       -> PushRepeated(self, "supersedes", valstring)
         [] OTHER                    -> [sum |-> self, res |-> "Err"]

\* as validate below, but taking a size of 0 for a missing size
validate_zero_missing(self) ==
    IF self.build_date = <<>> THEN "Missing BUILD_DATE"
    ELSE IF self.categories = <<>> THEN "Missing CATEGORIES"
    ELSE IF self.comment = <<>> THEN "Missing COMMENT"
    ELSE IF self.description = <<>> THEN "Missing DESCRIPTION"
    ELSE IF self.machine_arch = <<>> THEN "Missing MACHINE_ARCH"
    ELSE IF self.opsys = <<>> THEN "Missing OPSYS"
    ELSE IF self.os_version = <<>> THEN "Missing OS_VERSION"
    ELSE IF self.pkgname = <<>> THEN "Missing PKGNAME"
    ELSE IF self.pkgpath = <<>> THEN "Missing PKGPATH"
    ELSE IF self.pkgtools_version = <<>> THEN "Missing PKGTOOLS_VERSION"
    ELSE IF self.size_pkg = None \/ self.size_pkg = Some([neg |-> FALSE, mag |-> <<0>>])
      THEN "Missing SIZE_PKG"
    ELSE "Ok"

\* Summary::validate: "Ok", or the message of the first failing check
validate(self) ==
    IF self.build_date = <<>> THEN "Missing BUILD_DATE"
    ELSE IF self.categories = <<>> THEN "Missing CATEGORIES"
    ELSE IF self.comment = <<>> THEN "Missing COMMENT"
    ELSE IF self.description = <<>> THEN "Missing DESCRIPTION"
    ELSE IF self.machine_arch = <<>> THEN "Missing MACHINE_ARCH"
    ELSE IF self.opsys = <<>> THEN "Missing OPSYS"
    ELSE IF self.os_version = <<>> THEN "Missing OS_VERSION"
    ELSE IF self.pkgname = <<>> THEN "Missing PKGNAME"
    ELSE IF self.pkgpath = <<>> THEN "Missing PKGPATH"
    ELSE IF self.pkgtools_version = <<>> THEN "Missing PKGTOOLS_VERSION"
    ELSE IF self.size_pkg = None THEN "Missing SIZE_PKG"
    ELSE "Ok"

----------------------------------------------------------------------------
(* The text operations of SummaryStream::write (summary.rs:459-483).       *)

\* a UTF-8 continuation byte
IsCont(b) == b >= 128 /\ b <= 191

\* the number of bytes of the character that starts at s[i], 0 when the
\* bytes from s[i] do not start a well-formed character: no overlong form,
\* no surrogate, nothing above U+10FFFF, no truncated sequence
Utf8CharLen(s, i) ==
    LET b == s[i]
        n == Len(s)
    IN IF b < 128 THEN 1
       ELSE IF b >= 194 /\ b <= 223
         THEN IF i + 1 <= n /\ IsCont(s[i + 1]) THEN 2 ELSE 0
       ELSE IF b >= 224 /\ b <= 239
         THEN IF /\ i + 2 <= n
                 /\ IsCont(s[i + 1]) /\ IsCont(s[i + 2])
                 /\ (b = 224 => s[i + 1] >= 160)
                 /\ (b = 237 => s[i + 1] <= 159)
              THEN 3 ELSE 0
       ELSE IF b >= 240 /\ b <= 244
         THEN IF /\ i + 3 <= n
                 /\ IsCont(s[i + 1]) /\ IsCont(s[i + 2]) /\ IsCont(s[i + 3])
                 /\ (b = 240 => s[i + 1] >= 144)
                 /\ (b = 244 => s[i + 1] <= 143)
              THEN 4 ELSE 0
       ELSE 0

\* std::str::from_utf8(&self.buf).is_ok(): every byte that is not a
\* continuation byte starts a well-formed character, and every continuation
\* byte belongs to the character started by the nearest such byte before it
IsUtf8(s) ==
    \A i \in 1..Len(s) :
       \/ s[i] < 128
       \/ /\ ~IsCont(s[i])
          /\ Utf8CharLen(s, i) > 0
       \/ /\ IsCont(s[i])
          /\ \E d \in 1..3 :
                /\ i - d >= 1
                /\ ~IsCont(s[i - d])
                /\ \A j \in (i - d + 1)..(i - 1) : IsCont(s[j])
                /\ Utf8CharLen(s, i - d) > d

\* the positions at which "\n\n" occurs in s
DelimiterAt(s) == {i \in 1..(Len(s) - 1) : s[i] = LF /\ s[i + 1] = LF}

\* as RFindDelimiter below, but passing over a "\n\n" that ends s
RFindBeforeEnd(s) ==
    LET ps == {i \in DelimiterAt(s) : i + 1 < Len(s)}
    IN IF ps = {} THEN 0 ELSE SetMax(ps)

\* s.rfind("\n\n"): the position of the last occurrence, 0 for None
RFindDelimiter(s) ==
    LET ps == DelimiterAt(s)
    IN IF ps = {} THEN 0 ELSE SetMax(ps)

\* input_string.split_terminator("\n\n"): the occurrences are matched from
\* the left without overlap, and an empty last piece is not yielded
RECURSIVE SplitFrom(_, _)
SplitFrom(s, start) ==
    LET ps == {i \in DelimiterAt(s) : i >= start}
    IN IF ps = {}
       THEN IF start > Len(s) THEN <<>> ELSE <<SubSeq(s, start, Len(s))>>
       ELSE LET p == SetMin(ps)
            IN <<SubSeq(s, start, p - 1)>> \o SplitFrom(s, p + 2)

SplitTerminator(s) == SplitFrom(s, 1)

\* a line as str::lines() yields it: the "\n" that ends it is removed, and
\* then a "\r" before that "\n"; a last line with no "\n" is yielded as is
StripLineEnd(s, from, lf) ==
    IF lf > from /\ s[lf - 1] = CR
    THEN SubSeq(s, from, lf - 2)
    ELSE SubSeq(s, from, lf - 1)

\* sum_entry.lines()
RECURSIVE LinesFrom(_, _)
LinesFrom(s, start) ==
    IF start > Len(s) THEN <<>>
    ELSE LET ps == {i \in Positions(s, LF) : i >= start}
         IN IF ps = {} THEN <<SubSeq(s, start, Len(s))>>
            ELSE LET p == SetMin(ps)
                 IN <<StripLineEnd(s, start, p)>> \o LinesFrom(s, p + 1)

Lines(s) == LinesFrom(s, 1)

\* as SplitN2 below, but splitting at the last occurrence
SplitAtLast(s, c) ==
    LET ps == Positions(s, c)
    IN IF ps = {} THEN <<s>>
       ELSE LET p == SetMax(ps)
            IN <<SubSeq(s, 1, p - 1), SubSeq(s, p + 1, Len(s))>>

\* line.splitn(2, '=').collect(): the parts before and after the first '=',
\* the whole line alone when it has no '='
SplitN2(s, c) ==
    LET ps == Positions(s, c)
    IN IF ps = {} THEN <<s>>
       ELSE LET p == SetMin(ps)
            IN <<SubSeq(s, 1, p - 1), SubSeq(s, p + 1, Len(s))>>

----------------------------------------------------------------------------
(* The record loop of SummaryStream::write (summary.rs:474-500).           *)

\* as FreshSummary below, but going on with the Summary of the record before
CarrySummary(previous) == previous

\* the Record each piece starts from: let mut sum = Summary::new()
FreshSummary(previous) == SummaryNew

RECURSIVE ParseLines(_, _, _, _)

\* as AfterEntry below, but leaving the record at the first unknown key
AfterEntryStopAtErr(ls, i, out, r) ==
    CASE r.res = "Ok" -> ParseLines(r.sum, ls, i + 1, out)
      [] r.res = "Err" ->
           [sum |-> r.sum, res |-> "Ok",
            diag |-> Append(out, "PARSE ERROR: Unhandled key")]
      [] OTHER -> [sum |-> r.sum, diag |-> out, res |-> "panic"]

\* the match on what parse_entry returned for line i (r): Ok goes on, Err
\* prints and goes on, and a panic ends the call
AfterEntry(ls, i, out, r) ==
    CASE r.res = "Ok" -> ParseLines(r.sum, ls, i + 1, out)
      [] r.res = "Err" ->
           ParseLines(r.sum, ls, i + 1,
                      Append(out, "PARSE ERROR: Unhandled key"))
      [] OTHER -> [sum |-> r.sum, diag |-> out, res |-> "panic"]

\* line i, split at '=' into v: a line without '=' panics, any other line
\* goes to parse_entry
DispatchLine(self, ls, i, out, v) ==
    IF Len(v) < 2
    THEN [sum |-> self, diag |-> out, res |-> "panic"]
    ELSE AfterEntry(ls, i, out, parse_entry(self, v[1], v[2]))

\* the loop over the lines of one record, from line i on: the Summary, the
\* diagnostics printed, and "panic" if a line made the call panic
ParseLines(self, ls, i, out) ==
    IF i > Len(ls) THEN [sum |-> self, diag |-> out, res |-> "Ok"]
    ELSE DispatchLine(self, ls, i, out, SplitN2(ls[i], EQ))

\* as Keep below, but without looking at the verdict
KeepAll(es, self, verdict) == Append(es, self)

\* as Keep below, but putting the Summary in front
KeepInFront(es, self, verdict) ==
    IF verdict = "Ok" THEN <<self>> \o es ELSE es

\* what the loop does with a Summary whose lines are all dispatched
Keep(es, self, verdict) ==
    IF verdict = "Ok" THEN Append(es, self) ELSE es

\* what the loop prints for it
Report(out, verdict) ==
    IF verdict = "Ok" THEN out ELSE Append(out, "VALIDATE ERROR: " \o verdict)

RECURSIVE ParseRecords(_, _, _, _, _)

\* record i, its lines dispatched (r): validated and kept or dropped, unless
\* one of its lines ended the call
AfterRecord(pieces, i, es, r, verdict) ==
    IF r.res = "panic"
    THEN [entries |-> es, diag |-> r.diag, res |-> "panic"]
    ELSE ParseRecords(pieces, i + 1, r.sum, Keep(es, r.sum, verdict),
                      Report(r.diag, verdict))

\* the lines of record i, dispatched to the Summary the record starts from
RecordOf(start, piece, out) == ParseLines(start, Lines(piece), 1, out)

ValidatedRecord(pieces, i, es, r) ==
    AfterRecord(pieces, i, es, r, validate(r.sum))

\* the loop over the records, from piece i on: the collection, the
\* diagnostics printed, and whether the call panicked
ParseRecords(pieces, i, previous, es, out) ==
    IF i > Len(pieces) THEN [entries |-> es, diag |-> out, res |-> "Ok"]
    ELSE ValidatedRecord(pieces, i, es,
                         RecordOf(FreshSummary(previous), pieces[i], out))

\* as WriteParsed below, but leaving the buffer as it is
WriteParsedKeepBuffer(all, n, input_len, r) ==
    IF r.res = "panic"
    THEN [buf |-> all, entries |-> r.entries, diag |-> r.diag,
          status |-> "panicked", ret |-> None]
    ELSE [buf |-> all, entries |-> r.entries, diag |-> r.diag,
          status |-> "ok", ret |-> Some(n)]

\* the end of write, the records parsed (r): the buffer is cut to what
\* follows input_string, and the length of the input is returned
WriteParsed(all, n, input_len, r) ==
    IF r.res = "panic"
    THEN [buf |-> all, entries |-> r.entries, diag |-> r.diag,
          status |-> "panicked", ret |-> None]
    ELSE [buf |-> SubSeq(all, input_len + 1, Len(all)),
          entries |-> r.entries, diag |-> r.diag,
          status |-> "ok", ret |-> Some(n)]

\* write once the buffer is known to be text, last being where its last
\* "\n\n" starts (0 for none)
WriteText(self, all, n, last) ==
    IF last = 0
    THEN [buf |-> all, entries |-> self.entries, diag |-> <<>>,
          status |-> "ok", ret |-> Some(n)]
    ELSE WriteParsed(all, n, last + 1,
            ParseRecords(SplitTerminator(SubSeq(all, 1, last + 1)), 1,
                         SummaryNew, self.entries, <<>>))

\* write once the input is appended to the buffer (all)
WriteBuffer(self, all, n) ==
    IF ~IsUtf8(all)
    THEN [buf |-> all, entries |-> self.entries, diag |-> <<>>,
          status |-> "panicked", ret |-> None]
    ELSE WriteText(self, all, n, RFindDelimiter(all))

\* SummaryStream::write: the stream afterwards, what was printed, and the
\* value returned
write(self, input) == WriteBuffer(self, self.buf \o input, Len(input))

\* SummaryStream::new()
SummaryStreamNew == [buf |-> <<>>, entries |-> <<>>]

----------------------------------------------------------------------------
(* Inputs.                                                                 *)

\* "EXTRA_FIELD", a key parse_entry does not know
K_EXTRA_FIELD == <<69, 88, 84, 82, 65, 95, 70, 73, 69, 76, 68>>
\* "comment": keys are matched exactly, so this one is not known either
K_lower_comment == <<99, 111, 109, 109, 101, 110, 116>>

\* "d"
V_d == <<100>>
\* "x"
V_x == <<120>>
\* "test"
V_test == <<116, 101, 115, 116>>
\* "0"
V_0 == <<48>>
\* "1"
V_1 == <<49>>
\* "12"
V_12 == <<49, 50>>
\* "007"
V_007 == <<48, 48, 55>>
\* "+7"
V_plus7 == <<43, 55>>
\* "-5"
V_neg5 == <<45, 53>>
\* "1x"
V_1x == <<49, 120>>
\* "9223372036854775807"
V_max == <<57, 50, 50, 51, 51, 55, 50, 48, 51, 54, 56, 53, 52, 55, 55, 53, 56, 48, 55>>
\* "9223372036854775808"
V_over == <<57, 50, 50, 51, 51, 55, 50, 48, 51, 54, 56, 53, 52, 55, 55, 53, 56, 48, 56>>
\* "-9223372036854775808"
V_min == <<45, 57, 50, 50, 51, 51, 55, 50, 48, 51, 54, 56, 53, 52, 55, 55, 53, 56, 48, 56>>
\* "a-1"
V_a_1 == <<97, 45, 49>>
\* "pkgtest-1.0"
V_pkgtest_1_0 == <<112, 107, 103, 116, 101, 115, 116, 45, 49, 46, 48>>
\* "foo-bar-2.3.1"
V_foo_bar_2_3_1 == <<102, 111, 111, 45, 98, 97, 114, 45, 50, 46, 51, 46, 49>>
\* "ab"
V_ab == <<97, 98>>
\* "-"
V_dash == <<45>>
\* "a=b"
V_a_eq_b == <<97, 61, 98>>
\* "caf" followed by the two bytes of U+00E9
V_cafe == <<99, 97, 102, 195, 169>>
\* "junk"
V_junk == <<106, 117, 110, 107>>

\* the line "key=value\n"
Line(key, value) == key \o <<EQ>> \o value \o <<LF>>
\* the line "key=value\r\n"
LineCRLF(key, value) == key \o <<EQ>> \o value \o <<CR, LF>>

RECURSIVE Concat(_)
Concat(ss) == IF ss = <<>> THEN <<>> ELSE Head(ss) \o Concat(Tail(ss))

\* the lines of a record that has each required field once
Line_BUILD_DATE == Line(K_BUILD_DATE, V_d)
Line_CATEGORIES == Line(K_CATEGORIES, V_test)
Line_COMMENT == Line(K_COMMENT, V_x)
Line_DESCRIPTION == Line(K_DESCRIPTION, V_d)
Line_MACHINE_ARCH == Line(K_MACHINE_ARCH, V_x)
Line_OPSYS == Line(K_OPSYS, V_x)
Line_OS_VERSION == Line(K_OS_VERSION, V_1)
Line_PKGNAME == Line(K_PKGNAME, V_a_1)
Line_PKGPATH == Line(K_PKGPATH, V_x)
Line_PKGTOOLS_VERSION == Line(K_PKGTOOLS_VERSION, V_1)
Line_SIZE_PKG == Line(K_SIZE_PKG, V_0)

\* a valid record, with its blank line
ValidText ==
    Concat(<<Line_BUILD_DATE, Line_CATEGORIES, Line_COMMENT, Line_DESCRIPTION,
             Line_MACHINE_ARCH, Line_OPSYS, Line_OS_VERSION, Line_PKGNAME,
             Line_PKGPATH, Line_PKGTOOLS_VERSION, Line_SIZE_PKG, <<LF>> >>)

\* a valid record with repeated lines, an unknown key, a "\r\n" line end, a
\* value that holds '=', a two-byte character and a name with several '-'
RichText ==
    Concat(<<Line_BUILD_DATE, Line_CATEGORIES, Line(K_COMMENT, V_cafe),
             Line_DESCRIPTION, Line(K_DESCRIPTION, <<>>),
             Line(K_DESCRIPTION, V_x), Line(K_EXTRA_FIELD, V_x),
             Line(K_FILE_SIZE, V_12), Line(K_HOMEPAGE, V_a_eq_b),
             LineCRLF(K_MACHINE_ARCH, V_x), Line_OPSYS, Line_OS_VERSION,
             Line(K_PKGNAME, V_foo_bar_2_3_1), Line_PKGPATH,
             Line_PKGTOOLS_VERSION, Line(K_SIZE_PKG, V_12), <<LF>> >>)

\* the valid record without its COMMENT line
NoCommentText ==
    Concat(<<Line_BUILD_DATE, Line_CATEGORIES, Line_DESCRIPTION,
             Line_MACHINE_ARCH, Line_OPSYS, Line_OS_VERSION, Line_PKGNAME,
             Line_PKGPATH, Line_PKGTOOLS_VERSION, Line_SIZE_PKG, <<LF>> >>)

\* short records: one line and the blank line
BadIntegerText == Line(K_SIZE_PKG, V_x) \o <<LF>>
NoDashText == Line(K_PKGNAME, V_ab) \o <<LF>>
NoEqualsText == V_junk \o <<LF, LF>>
BadUtf8Text == Line(K_COMMENT, <<255>>) \o <<LF>>
\* a blank line pair on its own, and a single line break
BlankText == <<LF, LF>>
BreakText == <<LF>>

Items ==
    {ValidText, RichText, NoCommentText, BadIntegerText, NoDashText,
     NoEqualsText, BadUtf8Text, BlankText, BreakText}

\* the most items the caller reads from its source
MaxItems == 2
\* the largest chunk the caller cuts off the input, short of all it holds
MaxChunk == 3

----------------------------------------------------------------------------
(* The stream and its caller.                                              *)

NoCall == [op |-> "none", key |-> <<>>, value |-> <<>>, pre |-> SummaryNew,
           res |-> "none"]

Init ==
    /\ pending = <<>>
    /\ received = <<>>
    /\ buf = SummaryStreamNew.buf
    /\ entries = SummaryStreamNew.entries
    /\ status = "ok"
    /\ ret = None
    /\ fed = <<>>
    /\ diag = <<>>
    /\ inserted = <<>>
    /\ sum = SummaryNew
    /\ hist = <<>>
    /\ lastCall = NoCall
    /\ calls = 0

\* the caller reads the next item from its source, once it holds less than
\* a full chunk
Receive(item) ==
    /\ status = "ok"
    /\ Len(received) < MaxItems
    /\ Len(pending) < MaxChunk
    /\ pending' = pending \o item
    /\ received' = Append(received, item)
    /\ UNCHANGED <<buf, entries, status, ret, fed, diag, inserted>>
    /\ UNCHANGED summaryVars

\* the stream after a write call that ended as r
Written(r) ==
    /\ buf' = r.buf
    /\ entries' = r.entries
    /\ status' = r.status
    /\ ret' = r.ret
    /\ diag' = diag \o r.diag
    /\ inserted' = inserted \o SubSeq(r.entries, Len(entries) + 1, Len(r.entries))

\* the caller hands the next n bytes it holds to write: a small chunk, or an
\* item whole as it was read
Write(n) ==
    /\ status = "ok"
    /\ n >= 1
    /\ n <= Len(pending)
    /\ n <= MaxChunk \/ pending \in Items
    /\ Written(write([buf |-> buf, entries |-> entries], SubSeq(pending, 1, n)))
    /\ fed' = fed \o SubSeq(pending, 1, n)
    /\ pending' = SubSeq(pending, n + 1, Len(pending))
    /\ UNCHANGED received
    /\ UNCHANGED summaryVars

\* the caller takes the last record out of the collection, as the test
\* does once it has supplied all it holds: entries_mut().pop(); on an empty
\* collection pop() changes nothing
EntriesMutPop ==
    /\ status = "ok"
    /\ pending = <<>>
    /\ entries # <<>>
    /\ entries' = SubSeq(entries, 1, Len(entries) - 1)
    /\ UNCHANGED <<pending, received, buf, status, ret, fed, diag, inserted>>
    /\ UNCHANGED summaryVars

Next ==
    \/ \E item \in Items : Receive(item)
    \/ \E n \in (1..MaxChunk) \cup {Len(pending)} : Write(n)
    \/ EntriesMutPop

Spec == Init /\ [][Next]_vars

----------------------------------------------------------------------------
(* One Summary and its caller, which calls parse_entry and validate.       *)

\* the most parse_entry and set_automatic calls the caller makes after Init
MaxCalls == 2

\* the <<key, value>> pairs the caller passes to parse_entry
EntryInputs ==
    {<<k, V_x>> : k \in KnownKeys \cup {K_EXTRA_FIELD, K_lower_comment, <<>>}}
    \cup {<<K_DESCRIPTION, v>> : v \in {<<>>, V_d}}
    \cup {<<K_COMMENT, v>> : v \in {<<>>, V_d}}
    \cup {<<K_SIZE_PKG, v>> : v \in {<<>>, V_0, V_neg5, V_plus7, V_007, V_1x,
                                     V_dash, V_max, V_over, V_min}}
    \cup {<<K_FILE_SIZE, v>> : v \in {V_0, V_12}}
    \cup {<<K_HOMEPAGE, v>> : v \in {V_a_eq_b}}
    \cup {<<K_PKGNAME, v>> : v \in {<<>>, V_dash, V_a_1, V_pkgtest_1_0,
                                    V_foo_bar_2_3_1}}

\* records the Summary has been given before the caller takes over: none,
\* the valid record, and the valid record short of one required line
StartTexts ==
    {<<>>,
     Concat(<<Line_BUILD_DATE, Line_CATEGORIES, Line_COMMENT, Line_DESCRIPTION,
              Line_MACHINE_ARCH, Line_OPSYS, Line_OS_VERSION, Line_PKGNAME,
              Line_PKGPATH, Line_PKGTOOLS_VERSION, Line_SIZE_PKG>>),
     Concat(<<Line_BUILD_DATE, Line_CATEGORIES, Line_COMMENT, Line_DESCRIPTION,
              Line_MACHINE_ARCH, Line_OPSYS, Line_OS_VERSION, Line_PKGNAME,
              Line_PKGPATH, Line_PKGTOOLS_VERSION>>),
     Concat(<<Line_BUILD_DATE, Line_CATEGORIES, Line_COMMENT, Line_DESCRIPTION,
              Line_MACHINE_ARCH, Line_OPSYS, Line_OS_VERSION,
              Line_PKGPATH, Line_PKGTOOLS_VERSION, Line_SIZE_PKG>>)}

\* the <<key, value>> pairs of the lines ls
PairsOf(ls) == [i \in 1..Len(ls) |-> SplitN2(ls[i], EQ)]

SummaryInit ==
    /\ pending = <<>>
    /\ received = <<>>
    /\ buf = SummaryStreamNew.buf
    /\ entries = SummaryStreamNew.entries
    /\ status = "ok"
    /\ ret = None
    /\ fed = <<>>
    /\ diag = <<>>
    /\ inserted = <<>>
    /\ \E text \in StartTexts :
          /\ sum = ParseLines(SummaryNew, Lines(text), 1, <<>>).sum
          /\ hist = PairsOf(Lines(text))
    /\ lastCall = NoCall
    /\ calls = 0

\* the Summary after a parse_entry call that ended as r
Entered(key, value, r) ==
    /\ sum' = r.sum
    /\ lastCall' = [op |-> "parse_entry", key |-> key, value |-> value,
                    pre |-> sum, res |-> r.res]

\* sum.parse_entry(key, value)
ParseEntry(key, value) ==
    /\ lastCall.res # "panic"
    /\ calls < MaxCalls
    /\ Entered(key, value, parse_entry(sum, key, value))
    /\ hist' = Append(hist, <<key, value>>)
    /\ calls' = calls + 1
    /\ UNCHANGED streamVars

\* sum.validate()
Validate ==
    /\ lastCall.res # "panic"
    /\ lastCall.op # "validate"
    /\ lastCall' = [op |-> "validate", key |-> <<>>, value |-> <<>>,
                    pre |-> sum, res |-> validate(sum)]
    /\ UNCHANGED <<sum, hist, calls>>
    /\ UNCHANGED streamVars

\* sum.set_automatic()
SetAutomatic ==
    /\ lastCall.res # "panic"
    /\ calls < MaxCalls
    /\ sum' = set_automatic(sum)
    /\ lastCall' = [op |-> "set_automatic", key |-> <<>>, value |-> <<>>,
                    pre |-> sum, res |-> "Ok"]
    /\ calls' = calls + 1
    /\ UNCHANGED hist
    /\ UNCHANGED streamVars

SummaryNext ==
    \/ \E kv \in EntryInputs : ParseEntry(kv[1], kv[2])
    \/ Validate
    \/ SetAutomatic

SummarySpec == SummaryInit /\ [][SummaryNext]_vars

----------------------------------------------------------------------------
(* A caller that has both: it writes whole records to a stream and calls   *)
(* the methods of a Summary of its own, in any order.                      *)

\* the records this caller reads: two valid ones, and one whose PKGNAME has
\* no '-'
NameItems == {ValidText, RichText, NoDashText}

\* the <<key, value>> pairs this caller passes to parse_entry
NameInputs ==
    {<<K_PKGNAME, v>> : v \in {<<>>, V_x, V_dash, V_a_1, V_pkgtest_1_0,
                               V_foo_bar_2_3_1}}

NameNext ==
    \/ \E item \in NameItems : Receive(item)
    \/ Write(Len(pending))
    \/ EntriesMutPop
    \/ \E kv \in NameInputs : ParseEntry(kv[1], kv[2])
    \/ Validate
    \/ SetAutomatic

NameSpec == SummaryInit /\ [][NameNext]_vars

----------------------------------------------------------------------------
(* What the claims speak of.                                               *)

\* the required-field contract of a Record
RequiredFieldsSet(e) ==
    /\ e.build_date # <<>> /\ e.comment # <<>> /\ e.machine_arch # <<>>
    /\ e.opsys # <<>> /\ e.os_version # <<>> /\ e.pkgname # <<>>
    /\ e.pkgpath # <<>> /\ e.pkgtools_version # <<>>
    /\ e.categories # <<>> /\ e.description # <<>>
    /\ e.size_pkg # None

\* the items that are a valid record
ValidItems == {ValidText, RichText}

\* the Summary of the record text, blank line included, parsed on its own
Alone(text) ==
    ParseLines(SummaryNew, Lines(SubSeq(text, 1, Len(text) - 2)), 1, <<>>).sum

\* the valid items among its, in order
RECURSIVE ValidAmong(_)
ValidAmong(its) ==
    IF its = <<>> THEN <<>>
    ELSE IF Head(its) \in ValidItems
         THEN <<Head(its)>> \o ValidAmong(Tail(its))
         ELSE ValidAmong(Tail(its))

\* the number of lines of text (each ended by "\n") that start with key and '='
LinesWithKey(text, key) ==
    Cardinality({i \in 1..Len(Lines(text)) :
                    LET v == SplitN2(Lines(text)[i], EQ)
                    IN Len(v) = 2 /\ v[1] = key})

\* what each valid item gives alone, and how many DESCRIPTION lines it has
AloneOf == [t \in ValidItems |-> Alone(t)]
DescriptionLinesOf == [t \in ValidItems |-> LinesWithKey(t, K_DESCRIPTION)]

\* all of the caller's input has gone through write, and every call returned
AllWritten == status = "ok" /\ pending = <<>> /\ received # <<>>

----------------------------------------------------------------------------
\* C1: for every byte stream and every way of cutting it into chunks,
\* feeding the chunks one after another to a fresh stream ends as feeding
\* all the bytes in one write call does: the same success or failure, and
\* on success the same records in the same order.
C1_ChunkIndependence ==
    LET one == write(SummaryStreamNew, fed)
    IN fed # <<>> =>
          /\ status = one.status
          /\ (status = "ok" => inserted = one.entries)

\* C2: every record in entries, and every record write has ever put there,
\* satisfies the required-field contract, and once all input is written
\* write has inserted as many records as the input has valid ones, whatever
\* rejected records stand before or after.
C2_InvalidNeverInserted ==
    /\ \A i \in 1..Len(entries) : RequiredFieldsSet(entries[i])
    /\ \A i \in 1..Len(inserted) : RequiredFieldsSet(inserted[i])
    /\ AllWritten => Len(inserted) = Len(ValidAmong(received))

\* a rejected record stands before a valid one, and the valid one is in
C2_Witness ==
    /\ AllWritten
    /\ received = <<NoCommentText, ValidText>>
    /\ Len(entries) = 1
    /\ diag = <<"VALIDATE ERROR: Missing COMMENT">>

\* the required-field contract but for the package size
OtherRequiredSet(e) ==
    /\ e.build_date # <<>> /\ e.comment # <<>> /\ e.machine_arch # <<>>
    /\ e.opsys # <<>> /\ e.os_version # <<>> /\ e.pkgname # <<>>
    /\ e.pkgpath # <<>> /\ e.pkgtools_version # <<>>
    /\ e.categories # <<>> /\ e.description # <<>>

\* parse_entry was given a line with this key
HasLine(key) == \E i \in 1..Len(hist) : hist[i][1] = key

\* C3: with every other required field set, validate accepts a record
\* that was given a SIZE_PKG line with an integer value, 0 included, and
\* rejects a record that was given no SIZE_PKG line.
C3_SizePkgZeroValid ==
    (lastCall.op = "validate" /\ OtherRequiredSet(sum)) =>
       /\ HasLine(K_SIZE_PKG) => lastCall.res = "Ok"
       /\ ~HasLine(K_SIZE_PKG) => lastCall.res = "Missing SIZE_PKG"

\* validate has accepted a record whose only SIZE_PKG line is SIZE_PKG=0
C3_Witness ==
    /\ lastCall.op = "validate"
    /\ lastCall.res = "Ok"
    /\ hist[Len(hist)] = <<K_SIZE_PKG, V_0>>
    /\ sum.size_pkg = Some([neg |-> FALSE, mag |-> <<0>>])
    /\ \A i \in 1..(Len(hist) - 1) : hist[i][1] # K_SIZE_PKG

\* "pkgtest"
V_pkgtest == <<112, 107, 103, 116, 101, 115, 116>>
\* "1.0"
V_1_0 == <<49, 46, 48>>
\* "foo-bar"
V_foo_bar == <<102, 111, 111, 45, 98, 97, 114>>
\* "2.3.1"
V_2_3_1 == <<50, 46, 51, 46, 49>>

\* the byte c occurs in s
HasByte(s, c) == \E i \in 1..Len(s) : s[i] = c

\* C4: for a PKGNAME value with at least one '-', parse_entry stores the
\* value as the full name, what stands before the last '-' as the base
\* name and what stands after it as the version.
C4_SplitAtLastDash ==
    (/\ lastCall.op = "parse_entry"
     /\ lastCall.key = K_PKGNAME
     /\ HasByte(lastCall.value, DASH)) =>
       /\ lastCall.res = "Ok"
       /\ sum.pkgname = lastCall.value
       /\ sum.pkgbase \o <<DASH>> \o sum.pkgversion = lastCall.value
       /\ ~HasByte(sum.pkgversion, DASH)
       /\ lastCall.value = V_pkgtest_1_0 =>
             sum.pkgbase = V_pkgtest /\ sum.pkgversion = V_1_0
       /\ lastCall.value = V_foo_bar_2_3_1 =>
             sum.pkgbase = V_foo_bar /\ sum.pkgversion = V_2_3_1

\* PKGNAME=foo-bar-2.3.1 has been dispatched
C4_Witness ==
    /\ lastCall.op = "parse_entry"
    /\ lastCall.key = K_PKGNAME
    /\ lastCall.value = V_foo_bar_2_3_1
    /\ sum.pkgbase = V_foo_bar
    /\ sum.pkgversion = V_2_3_1

\* C5: each record write inserts is the Summary its own text gives when it
\* is parsed alone from an empty Summary, so nothing of another record is
\* in it; a valid record with one DESCRIPTION line has a description of
\* length 1 however many records came before it.
C5_RecordIsolation ==
    status = "ok" =>
       /\ Len(inserted) <= Len(ValidAmong(received))
       /\ \A i \in 1..Len(inserted) :
             /\ inserted[i] = AloneOf[ValidAmong(received)[i]]
             /\ Len(inserted[i].description)
                   = DescriptionLinesOf[ValidAmong(received)[i]]
       /\ \A i \in 1..Len(entries) :
             \E t \in ValidItems : entries[i] = AloneOf[t]

\* two records with one DESCRIPTION line each are in the collection
C5_Witness ==
    /\ AllWritten
    /\ received = <<ValidText, ValidText>>
    /\ Len(entries) = 2
    /\ Len(entries[1].description) = 1
    /\ Len(entries[2].description) = 1

\* the field a repeated key is pushed to
RepeatedFieldOf(key) ==
    CASE key = K_CATEGORIES -> "categories"
      [] key = K_CONFLICTS -> "conflicts"
      [] key = K_DEPENDS -> "depends"
      [] key = K_DESCRIPTION -> "description"
      [] key = K_PROVIDES -> "provides"
      [] key = K_REQUIRES -> "requires"
      [] key = K_SUPERSEDES -> "supersedes"

\* the values of the pairs of h whose key is key, in order
RECURSIVE ValuesOf(_, _)
ValuesOf(h, key) ==
    IF h = <<>> THEN <<>>
    ELSE IF Head(h)[1] = key
         THEN <<Head(h)[2]>> \o ValuesOf(Tail(h), key)
         ELSE ValuesOf(Tail(h), key)

\* C6: a repeated field is the sequence of the values of its key's lines,
\* in the order the lines were dispatched, duplicates and empty values
\* included, so that its length is the number of those lines.
C6_RepeatedFieldsAccumulate ==
    \A key \in RepeatedKeys :
       sum[RepeatedFieldOf(key)] = ValuesOf(hist, key)

\* three DESCRIPTION lines were dispatched: a value, the empty value, and
\* the first value again
C6_Witness ==
    /\ sum.description = <<V_d, <<>>, V_d>>
    /\ ValuesOf(hist, K_DESCRIPTION) = <<V_d, <<>>, V_d>>
    /\ lastCall.op = "parse_entry"
    /\ lastCall.key = K_DESCRIPTION

\* RichText without its EXTRA_FIELD line
RichTextWithoutExtra ==
    Concat(<<Line_BUILD_DATE, Line_CATEGORIES, Line(K_COMMENT, V_cafe),
             Line_DESCRIPTION, Line(K_DESCRIPTION, <<>>),
             Line(K_DESCRIPTION, V_x),
             Line(K_FILE_SIZE, V_12), Line(K_HOMEPAGE, V_a_eq_b),
             LineCRLF(K_MACHINE_ARCH, V_x), Line_OPSYS, Line_OS_VERSION,
             Line(K_PKGNAME, V_foo_bar_2_3_1), Line_PKGPATH,
             Line_PKGTOOLS_VERSION, Line(K_SIZE_PKG, V_12), <<LF>> >>)

AloneRichWithoutExtra == Alone(RichTextWithoutExtra)

\* how often x occurs in seq
Count(seq, x) == Cardinality({i \in 1..Len(seq) : seq[i] = x})

\* C7: a line with an unknown key changes no field and skips nothing: the
\* record it stands in is the Summary of the same record without that line,
\* it is inserted if it is otherwise valid, and so are the records after
\* it; the line is reported once.
C7_UnknownKeySkipsNothing ==
    /\ status = "ok" =>
          /\ \A i \in 1..Len(inserted) :
                inserted[i].comment = V_cafe =>
                   inserted[i] = AloneRichWithoutExtra
          /\ \A i \in 1..Len(entries) :
                entries[i].comment = V_cafe =>
                   entries[i] = AloneRichWithoutExtra
    /\ AllWritten =>
          /\ Cardinality({i \in 1..Len(inserted) :
                             inserted[i].comment = V_cafe})
                = Count(received, RichText)
          /\ Count(diag, "PARSE ERROR: Unhandled key")
                = Count(received, RichText)
          /\ Len(inserted) = Len(ValidAmong(received))

\* the record with the unknown key and the record after it are both in
C7_Witness ==
    /\ AllWritten
    /\ received = <<RichText, ValidText>>
    /\ Len(entries) = 2
    /\ entries[1] = AloneRichWithoutExtra
    /\ diag = <<"PARSE ERROR: Unhandled key">>

\* C8: every write call returns Ok with the length of the chunk it was
\* given; no call fails, whatever the chunk and the buffer hold.
C8_WriteReturnsChunkLength ==
    [][fed' # fed =>
          /\ status' = "ok"
          /\ ret' = Some(Len(fed') - Len(fed))]_vars

\* the field an integer key is stored in
IntegerFieldOf(key) ==
    CASE key = K_FILE_SIZE -> "file_size"
      [] key = K_SIZE_PKG -> "size_pkg"

\* C9: a FILE_SIZE or SIZE_PKG value that is no 64-bit signed integer is a
\* recoverable error: parse_entry returns, and a field that was unset is
\* left unset.
C9_BadIntegerRecoverable ==
    (/\ lastCall.op = "parse_entry"
     /\ lastCall.key \in IntegerKeys
     /\ ParseI64(lastCall.value) = None) =>
       /\ lastCall.res \in {"Ok", "Err"}
       /\ lastCall.pre[IntegerFieldOf(lastCall.key)] = None =>
             sum[IntegerFieldOf(lastCall.key)] = None

\* C10: a PKGNAME value without '-' is a recoverable error: parse_entry
\* returns, and a full name, base name and version that were unset are
\* left unset.
C10_NameWithoutDashRecoverable ==
    (/\ lastCall.op = "parse_entry"
     /\ lastCall.key = K_PKGNAME
     /\ ~HasByte(lastCall.value, DASH)) =>
       /\ lastCall.res \in {"Ok", "Err"}
       /\ lastCall.pre.pkgname = <<>> =>
             /\ sum.pkgname = <<>>
             /\ sum.pkgbase = <<>>
             /\ sum.pkgversion = <<>>

\* every item read so far is one of its
ReceivedAmong(its) == \A i \in 1..Len(received) : received[i] \in its

\* C11: a line without '=' in a complete record, the empty line that an odd
\* run of line breaks leaves included, discards only the rest of that one
\* record: every write call returns, and every valid record of the stream
\* is inserted, whatever stands before it.
C11_MalformedLineRecoverable ==
    /\ ReceivedAmong({ValidText, NoCommentText, NoEqualsText, BlankText,
                      BreakText}) => status = "ok"
    /\ (/\ ReceivedAmong({ValidText, NoCommentText, NoEqualsText, BlankText})
        /\ AllWritten) => Len(inserted) = Len(ValidAmong(received))

\* the bytes the last write call was given, in a step that is a write call
LastChunk == SubSeq(fed', Len(fed) + 1, Len(fed'))

\* C12: a write call that finds the accumulated buffer not to be valid text
\* does not abort: the failure stays with this stream, and the records
\* already in the collection are as they were.
C12_InvalidTextNoAbort ==
    [][(fed' # fed /\ ~IsUtf8(buf \o LastChunk)) =>
          /\ status' # "panicked"
          /\ entries' = entries]_vars

\* the field a scalar key is assigned to
ScalarFieldOf(key) ==
    CASE key = K_BUILD_DATE -> "build_date"
      [] key = K_COMMENT -> "comment"
      [] key = K_MACHINE_ARCH -> "machine_arch"
      [] key = K_OPSYS -> "opsys"
      [] key = K_OS_VERSION -> "os_version"
      [] key = K_PKGPATH -> "pkgpath"
      [] key = K_PKGTOOLS_VERSION -> "pkgtools_version"
      [] key = K_FILE_CKSUM -> "file_cksum"
      [] key = K_FILE_NAME -> "file_name"
      [] key = K_HOMEPAGE -> "homepage"
      [] key = K_LICENSE -> "license"
      [] key = K_PKG_OPTIONS -> "pkg_options"
      [] key = K_PREV_PKGPATH -> "prev_pkgpath"

\* the scalar keys whose field is a String, and those whose field is an
\* Option<String>
StringKeys ==
    {K_BUILD_DATE, K_COMMENT, K_MACHINE_ARCH, K_OPSYS, K_OS_VERSION,
     K_PKGPATH, K_PKGTOOLS_VERSION}
OptionalStringKeys ==
    {K_FILE_CKSUM, K_FILE_NAME, K_HOMEPAGE, K_LICENSE, K_PKG_OPTIONS,
     K_PREV_PKGPATH}

\* the value of the last pair of h whose key is key
LastValueOf(h, key) == ValuesOf(h, key)[Len(ValuesOf(h, key))]

\* C13: scalar fields are last-value-wins: once the calls so far have
\* returned, a scalar field whose key was dispatched holds the value of
\* the last line with that key, and for PKGNAME the base name and the
\* version are those of the last value as well.
C13_ScalarLastValueWins ==
    lastCall.res # "panic" =>
       /\ \A key \in StringKeys :
             HasLine(key) => sum[ScalarFieldOf(key)] = LastValueOf(hist, key)
       /\ \A key \in OptionalStringKeys :
             HasLine(key) =>
                sum[ScalarFieldOf(key)] = Some(LastValueOf(hist, key))
       /\ \A key \in IntegerKeys :
             HasLine(key) =>
                sum[IntegerFieldOf(key)] = ParseI64(LastValueOf(hist, key))
       /\ HasLine(K_PKGNAME) =>
             /\ sum.pkgname = LastValueOf(hist, K_PKGNAME)
             /\ sum.pkgbase \o <<DASH>> \o sum.pkgversion
                   = LastValueOf(hist, K_PKGNAME)
             /\ ~HasByte(sum.pkgversion, DASH)

\* a record with two COMMENT lines and two PKGNAME lines of different
\* values holds the second of each
C13_Witness ==
    /\ ValuesOf(hist, K_COMMENT) = <<V_x, V_d>>
    /\ sum.comment = V_d
    /\ ValuesOf(hist, K_PKGNAME) = <<V_a_1, V_foo_bar_2_3_1>>
    /\ sum.pkgname = V_foo_bar_2_3_1
    /\ sum.pkgbase = V_foo_bar
    /\ sum.pkgversion = V_2_3_1
    /\ lastCall.res = "Ok"

\* C14: a line is split at its first '=' only: the line HOMEPAGE=a=b sets
\* the homepage to "a=b", and the line DESCRIPTION= adds the empty string
\* to the description, in every record that has these lines.
C14_SplitOnFirstEquals ==
    /\ status = "ok" =>
          \A i \in 1..Len(entries) :
             entries[i].comment = V_cafe =>
                /\ entries[i].homepage = Some(V_a_eq_b)
                /\ entries[i].description = <<V_d, <<>>, V_x>>
    /\ AllWritten =>
          Cardinality({i \in 1..Len(inserted) :
                          inserted[i].homepage = Some(V_a_eq_b)})
             = Count(received, RichText)

\* the record with HOMEPAGE=a=b and DESCRIPTION= is in the collection
C14_Witness ==
    /\ AllWritten
    /\ received = <<RichText>>
    /\ Len(entries) = 1
    /\ entries[1].homepage = Some(V_a_eq_b)
    /\ entries[1].description[2] = <<>>

\* what the public accessor of an integer key's field returns
IntegerAccessorOf(key, self) ==
    CASE key = K_FILE_SIZE -> file_size(self)
      [] key = K_SIZE_PKG -> size_pkg(self)

\* C15: for FILE_SIZE and SIZE_PKG, a record whose field was never set and
\* the record it becomes when the field is set to 0 differ in the field and
\* in what the field's public accessor returns.
C15_AbsentIsNotZero ==
    (/\ lastCall.op = "parse_entry"
     /\ lastCall.key \in IntegerKeys
     /\ ParseI64(lastCall.value) = Some(I64Zero)
     /\ lastCall.pre[IntegerFieldOf(lastCall.key)] = None) =>
       /\ sum[IntegerFieldOf(lastCall.key)]
             # lastCall.pre[IntegerFieldOf(lastCall.key)]
       /\ IntegerAccessorOf(lastCall.key, sum)
             # IntegerAccessorOf(lastCall.key, lastCall.pre)

\* the number of bytes of the caller's input up to the end of item i
EndOf(i) == Len(Concat(SubSeq(received, 1, i)))

\* the valid items whose last byte has been supplied to write
ValidSupplied ==
    {i \in 1..Len(received) :
        received[i] \in ValidItems /\ EndOf(i) <= Len(fed)}

\* the records the write call of this step has inserted
NewlyInserted == SubSeq(inserted', Len(inserted) + 1, Len(inserted'))

\* C16: when a write call returns, every valid record whose blank line has
\* been supplied in full, by this call or an earlier one, has been put in
\* entries, by this call at the latest and wherever the chunks were cut;
\* none waits for a later write.
C16_PromptEmission ==
    [][(fed' # fed /\ status' = "ok") =>
          /\ Len(inserted') >= Cardinality(ValidSupplied')
          /\ entries' = entries \o NewlyInserted]_vars

\* the two line breaks of the blank line came in different chunks: the
\* last write supplied the second one alone, and the record is in
C16_Witness ==
    /\ status = "ok"
    /\ received = <<ValidText>>
    /\ fed = ValidText
    /\ ret = Some(1)
    /\ Len(entries) = 1
    /\ buf = <<>>

\* the lengths of the suffixes of s that stand right after a "\n\n"
TailLengths(s) ==
    {k \in 0..(Len(s) - 2) : s[Len(s) - k - 1] = LF /\ s[Len(s) - k] = LF}

\* the bytes of s after its last "\n\n": the shortest suffix that stands
\* right after a "\n\n", and all of s when it has no "\n\n"
AfterLastDelimiter(s) ==
    LET ks == TailLengths(s)
    IN IF ks = {} THEN s
       ELSE SubSeq(s, Len(s) - SetMin(ks) + 1, Len(s))

\* C17: after every write call that returns, the buffer is the bytes of the
\* previous buffer followed by the chunk that come after the last blank
\* line, so it holds no blank line, and what was consumed is not parsed
\* again: the collection never has more records than the input has valid
\* ones.
C17_BufferIsUnconsumedTail ==
    [][(fed' # fed /\ status' = "ok") =>
          /\ LET all == buf \o LastChunk
             IN buf' = AfterLastDelimiter(all)
          /\ DelimiterAt(buf') = {}
          /\ Len(inserted') <= Len(ValidAmong(received'))]_vars

\* a write call has consumed a record and kept the first byte of the next
C17_Witness ==
    /\ status = "ok"
    /\ received = <<ValidText, ValidText>>
    /\ Len(entries) = 1
    /\ ret = Some(3)
    /\ buf = <<ValidText[1]>>
    /\ Len(fed) = Len(ValidText) + 1

\* C18: a write call after which the buffer, the chunk appended, holds no
\* blank line returns the length of the chunk, leaves the collection as it
\* was and keeps the previous buffer followed by the chunk as the buffer.
C18_NoDelimiterKeepsAll ==
    [][(fed' # fed /\ DelimiterAt(buf \o LastChunk) = {}) =>
          /\ status' = "ok"
          /\ ret' = Some(Len(LastChunk))
          /\ entries' = entries
          /\ buf' = buf \o LastChunk]_vars

\* a is the beginning of b
IsPrefix(a, b) == Len(a) <= Len(b) /\ SubSeq(b, 1, Len(a)) = a

\* the COMMENT value of each valid item, which tells the items apart
CommentOf == [t \in ValidItems |-> AloneOf[t].comment]

\* C19: a write call leaves the records that were in the collection where
\* they were and as they were, and adds the new ones behind them; the
\* records of the collection are the valid records of the stream in the
\* order of the stream.
C19_AppendOnlyInStreamOrder ==
    [][fed' # fed =>
          /\ IsPrefix(entries, entries')
          /\ entries' = entries \o NewlyInserted
          /\ status' = "ok" =>
                /\ Len(inserted') <= Len(ValidAmong(received'))
                /\ \A i \in 1..Len(inserted') :
                      inserted'[i].comment
                         = CommentOf[ValidAmong(received')[i]]]_vars

\* two different valid records were written, the second by a later call
\* than the first, and stand in the collection in the order of the stream
C19_Witness ==
    /\ AllWritten
    /\ received = <<ValidText, RichText>>
    /\ Len(entries) = 2
    /\ entries[1].comment = V_x
    /\ entries[2].comment = V_cafe

\* the full name of e, when it has one, is its base name, '-' and its
\* version, and the version has no '-'
NameConsistent(e) ==
    e.pkgname # <<>> =>
       /\ e.pkgname = e.pkgbase \o <<DASH>> \o e.pkgversion
       /\ ~HasByte(e.pkgversion, DASH)

\* C20: after any sequence of parse_entry calls that returned, and for
\* every record in the collection, a full package name that is not empty
\* is the base name, '-' and the version, and the version has no '-'.
C20_DerivedNameConsistent ==
    /\ lastCall.res # "panic" => NameConsistent(sum)
    /\ \A i \in 1..Len(entries) : NameConsistent(entries[i])
    /\ \A i \in 1..Len(inserted) : NameConsistent(inserted[i])

\* the collection holds two records, one of them with a name of several
\* '-', and on the caller's own Summary a second PKGNAME line, with several
\* '-', has replaced the name, the base name and the version of the first
C20_Witness ==
    /\ status = "ok"
    /\ received = <<ValidText, RichText>>
    /\ Len(entries) = 2
    /\ entries[1].pkgname = V_a_1
    /\ entries[2].pkgname = V_foo_bar_2_3_1
    /\ entries[2].pkgbase = V_foo_bar
    /\ entries[2].pkgversion = V_2_3_1
    /\ lastCall.op = "parse_entry"
    /\ lastCall.res = "Ok"
    /\ lastCall.key = K_PKGNAME
    /\ lastCall.pre.pkgname = V_a_1
    /\ sum.pkgname = V_foo_bar_2_3_1
    /\ sum.pkgbase \o <<DASH>> \o sum.pkgversion = V_foo_bar_2_3_1

=============================================================================
